---------------------------- MODULE Spec2Model ----------------------------
(***************************************************************************)
(* Model of api/app.py: the character stripping engine                     *)
(* (strip_non_human_chars and its rule tables) and the diff segments the   *)
(* endpoint builds from difflib.SequenceMatcher(None, original, cleaned).  *)
(*                                                                         *)
(* A text is a sequence of code points (integers 0 .. 0x10FFFF).  Python   *)
(* slices a[i1:i2] are kept 0-based and half-open; element i of a Python   *)
(* string a is a[i + 1] here.                                              *)
(***************************************************************************)
EXTENDS Integers, Sequences, FiniteSets

VARIABLES pc, original_text, cleaned_text, diff_output

vars == <<pc, original_text, cleaned_text, diff_output>>

\* An Optional value (List[DiffSegment] | None): None is the empty tuple and
\* a present value v is the one-element tuple of v
None == <<>>

Some(v) == <<v>>

\* Largest Unicode scalar value
MaxCodePoint == \H10FFFF

(***************************************************************************)
(* Rule tables (module-level constants of app.py)                          *)
(***************************************************************************)

\* Rule 1: hidden/control chars, removed
_hidden_chars_to_remove ==
    {\HAD, \H180E, \H200B, \H200C, \H200D, \H200E, \H200F,
     \H202A, \H202B, \H202C, \H202D, \H202E, \H2060, \HFEFF}
    \cup (\H2061 .. \H206F)
    \cup (\HFE00 .. \HFE0F)

\* Rule 2: space characters -> " " (0x20)
_space_map ==
    [c \in {\HA0, \H1680, \H2000, \H2001, \H2002, \H2003, \H2004, \H2005,
            \H2006, \H2007, \H2008, \H2009, \H200A, \H202F, \H205F, \H3000}
       |-> <<\H20>>]

\* Rule 3: dashes -> "-" (0x2D)
_dash_map ==
    [c \in {\H2012, \H2013, \H2014, \H2015, \H2212} |-> <<\H2D>>]

\* Rule 4: quotes/apostrophes -> "'" (0x27) or '"' (0x22); U+2034 -> ""
_quote_map ==
    [c \in {\H2018, \H2019, \H201A, \H201B, \H201C, \H201D, \H201E, \H201F,
            \H2032, \H2033, \H2034, \H2035, \H2036, \HAB, \HBB}
       |-> CASE c \in {\H2018, \H2019, \H201A, \H201B, \H2032, \H2035} -> <<\H27>>
             [] c \in {\H201C, \H201D, \H201E, \H201F, \H2033, \H2036,
                       \HAB, \HBB} -> <<\H22>>
             [] c = \H2034 -> <<>>]

\* _misc_map with the bullet mapped to the middle dot, itself a key of the map
_misc_map_bullet_to_middle_dot ==
    [c \in {\H2026, \H2022, \HB7}
       |-> CASE c = \H2026 -> <<\H2E, \H2E, \H2E>>
             [] c = \H2022 -> <<\HB7>>
             [] c = \HB7   -> <<\H2E>>]

\* Rule 5: ellipsis -> "...", bullet -> "*", middle dot -> "."
_misc_map ==
    [c \in {\H2026, \H2022, \HB7}
       |-> CASE c = \H2026 -> <<\H2E, \H2E, \H2E>>
             [] c = \H2022 -> <<\H2A>>
             [] c = \HB7   -> <<\H2E>>]

(***************************************************************************)
(* Membership tests of the cascade, in the order the loop body tries them  *)
(***************************************************************************)

is_hidden(char_code) == char_code \in _hidden_chars_to_remove

is_space(char_code) == char_code \in DOMAIN _space_map

is_dash(char_code) == char_code \in DOMAIN _dash_map

is_quote(char_code) == char_code \in DOMAIN _quote_map

is_misc(char_code) == char_code \in DOMAIN _misc_map

\* is_fullwidth taking the whole Halfwidth and Fullwidth Forms block
is_fullwidth_whole_block(char_code) == \HFF01 <= char_code /\ char_code <= \HFFEF

is_fullwidth(char_code) == \HFF01 <= char_code /\ char_code <= \HFF5E

\* is_ascii keeping the printable characters only
is_ascii_printable(char_code) == 32 <= char_code /\ char_code <= 126

is_ascii(char_code) == 0 <= char_code /\ char_code <= 127

\* is_emoji with the Miscellaneous Symbols range opened at U+2000
is_emoji_from_2000(char_code) ==
    \/ (\H1F600 <= char_code /\ char_code <= \H1F64F)
    \/ (\H1F300 <= char_code /\ char_code <= \H1F5FF)
    \/ (\H1F680 <= char_code /\ char_code <= \H1F6FF)
    \/ (\H1F900 <= char_code /\ char_code <= \H1F9FF)
    \/ (\H2700 <= char_code /\ char_code <= \H27BF)
    \/ (\H1FA70 <= char_code /\ char_code <= \H1FAFF)
    \/ (\H1F1E6 <= char_code /\ char_code <= \H1F1FF)
    \/ (\H2000 <= char_code /\ char_code <= \H26FF)

\* is_emoji without the Dingbats branch
is_emoji_without_dingbats(char_code) ==
    \/ (\H1F600 <= char_code /\ char_code <= \H1F64F)
    \/ (\H1F300 <= char_code /\ char_code <= \H1F5FF)
    \/ (\H1F680 <= char_code /\ char_code <= \H1F6FF)
    \/ (\H1F900 <= char_code /\ char_code <= \H1F9FF)
    \/ (\H1FA70 <= char_code /\ char_code <= \H1FAFF)
    \/ (\H1F1E6 <= char_code /\ char_code <= \H1F1FF)
    \/ (\H2600 <= char_code /\ char_code <= \H26FF)

\* the if/elif chain over the eight emoji ranges
is_emoji(char_code) ==
    \/ (\H1F600 <= char_code /\ char_code <= \H1F64F)
    \/ (\H1F300 <= char_code /\ char_code <= \H1F5FF)
    \/ (\H1F680 <= char_code /\ char_code <= \H1F6FF)
    \/ (\H1F900 <= char_code /\ char_code <= \H1F9FF)
    \/ (\H2700 <= char_code /\ char_code <= \H27BF)
    \/ (\H1FA70 <= char_code /\ char_code <= \H1FAFF)
    \/ (\H1F1E6 <= char_code /\ char_code <= \H1F1FF)
    \/ (\H2600 <= char_code /\ char_code <= \H26FF)

\* chr(char_code - 0xFEE0)
fullwidth_shift(char_code) == <<char_code - \HFEE0>>

\* what one iteration of the for loop appends to processed_chars
strip_char(char_val) ==
    IF is_hidden(char_val) THEN <<>>
    ELSE IF is_space(char_val) THEN _space_map[char_val]
    ELSE IF is_dash(char_val) THEN _dash_map[char_val]
    ELSE IF is_quote(char_val) THEN
         (IF _quote_map[char_val] # <<>> THEN _quote_map[char_val] ELSE <<>>)
    ELSE IF is_misc(char_val) THEN _misc_map[char_val]
    ELSE IF is_fullwidth(char_val) THEN fullwidth_shift(char_val)
    ELSE IF is_ascii(char_val) THEN <<char_val>>
    ELSE IF is_emoji(char_val) THEN <<char_val>>
    ELSE <<>>

RECURSIVE strip_non_human_chars(_)
strip_non_human_chars(input_text) ==
    IF input_text = <<>> THEN <<>>
    ELSE strip_char(Head(input_text)) \o strip_non_human_chars(Tail(input_text))


(***************************************************************************)
(* difflib.SequenceMatcher(None, a, b) as the endpoint uses it: isjunk is  *)
(* None (no junk elements), autojunk keeps its default True.  Indices are  *)
(* Python's: 0-based, ranges [lo, hi) half-open.                           *)
(***************************************************************************)

\* a[i1:i2]
slice(a, i1, i2) == SubSeq(a, i1 + 1, i2)

\* the autojunk heuristic of __chain_b: in a b of 200 or more elements, an
\* element occurring more than len(b) // 100 + 1 times is dropped from b2j
is_popular(b, elt) ==
    /\ Len(b) >= 200
    /\ Cardinality({j \in 1 .. Len(b) : b[j] = elt}) > (Len(b) \div 100) + 1

\* j in b2j.get(elt, nothing)
in_b2j(b, elt, j) == b[j + 1] = elt /\ ~is_popular(b, elt)

\* the value k = newj2len[j] that find_longest_match computes at a[i], b[j]:
\* j2len.get(j - 1, 0) + 1, where j2len is the row of a[i - 1]
RECURSIVE j2len(_, _, _, _, _, _)
j2len(a, b, alo, blo, i, j) ==
    IF i < alo \/ j < blo THEN 0
    ELSE IF ~in_b2j(b, a[i + 1], j) THEN 0
    ELSE 1 + j2len(a, b, alo, blo, i - 1, j - 1)

\* the first loop of find_longest_match: the first (i, j), i ascending then j
\* ascending, whose k exceeds every k before it; kept as <<besti, bestj, bestsize>>
longest_block(a, b, alo, ahi, blo, bhi) ==
    LET cells == {<<c[1], c[2], j2len(a, b, alo, blo, c[1], c[2])>> :
                     c \in {d \in (alo .. ahi - 1) \X (blo .. bhi - 1) :
                               in_b2j(b, a[d[1] + 1], d[2])}}
        first(c, d) == c[1] < d[1] \/ (c[1] = d[1] /\ c[2] <= d[2])
    IN IF cells = {} THEN <<alo, blo, 0>>
       ELSE LET bestsize == CHOOSE k \in {c[3] : c \in cells} :
                               \A c \in cells : c[3] <= k
                best == CHOOSE c \in cells :
                           /\ c[3] = bestsize
                           /\ \A d \in cells : d[3] = bestsize => first(c, d)
            IN <<best[1] - bestsize + 1, best[2] - bestsize + 1, bestsize>>

\* while besti > alo and bestj > blo and a[besti-1] == b[bestj-1]: extend left
RECURSIVE extend_left(_, _, _, _, _)
extend_left(a, b, alo, blo, m) ==
    IF m[1] > alo /\ m[2] > blo /\ a[m[1]] = b[m[2]]
    THEN extend_left(a, b, alo, blo, <<m[1] - 1, m[2] - 1, m[3] + 1>>)
    ELSE m

\* while besti+bestsize < ahi and bestj+bestsize < bhi and
\*       a[besti+bestsize] == b[bestj+bestsize]: extend right
RECURSIVE extend_right(_, _, _, _, _)
extend_right(a, b, ahi, bhi, m) ==
    IF m[1] + m[3] < ahi /\ m[2] + m[3] < bhi
       /\ a[m[1] + m[3] + 1] = b[m[2] + m[3] + 1]
    THEN extend_right(a, b, ahi, bhi, <<m[1], m[2], m[3] + 1>>)
    ELSE m

\* find_longest_match(alo, ahi, blo, bhi); the two loops that absorb junk
\* on either side never run, bjunk being empty
find_longest_match(a, b, alo, ahi, blo, bhi) ==
    extend_right(a, b, ahi, bhi,
        extend_left(a, b, alo, blo, longest_block(a, b, alo, ahi, blo, bhi)))

\* the queue loop of get_matching_blocks: the blocks found in a[alo:ahi],
\* b[blo:bhi], to the left of the longest one and to its right
RECURSIVE queue_blocks(_, _, _, _, _, _)
queue_blocks(a, b, alo, ahi, blo, bhi) ==
    LET x == find_longest_match(a, b, alo, ahi, blo, bhi)
        i == x[1]
        j == x[2]
        k == x[3]
    IN IF k = 0 THEN {}
       ELSE {x}
            \cup (IF alo < i /\ blo < j
                  THEN queue_blocks(a, b, alo, i, blo, j) ELSE {})
            \cup (IF i + k < ahi /\ j + k < bhi
                  THEN queue_blocks(a, b, i + k, ahi, j + k, bhi) ELSE {})

\* tuple order of Python's list.sort() on (i, j, k) triples
block_le(x, y) ==
    \/ x[1] < y[1]
    \/ (x[1] = y[1] /\ x[2] < y[2])
    \/ (x[1] = y[1] /\ x[2] = y[2] /\ x[3] <= y[3])

\* matching_blocks.sort()
RECURSIVE sort_blocks(_)
sort_blocks(S) ==
    IF S = {} THEN <<>>
    ELSE LET x == CHOOSE y \in S : \A z \in S : block_le(y, z)
         IN <<x>> \o sort_blocks(S \ {x})

\* the loop that collapses adjacent equal blocks; cur is (i1, j1, k1)
RECURSIVE collapse(_, _)
collapse(blocks, cur) ==
    IF blocks = <<>> THEN (IF cur[3] # 0 THEN <<cur>> ELSE <<>>)
    ELSE LET nxt == Head(blocks)
         IN IF cur[1] + cur[3] = nxt[1] /\ cur[2] + cur[3] = nxt[2]
            THEN collapse(Tail(blocks), <<cur[1], cur[2], cur[3] + nxt[3]>>)
            ELSE (IF cur[3] # 0 THEN <<cur>> ELSE <<>>)
                 \o collapse(Tail(blocks), nxt)

\* get_matching_blocks without the closing sentinel
get_matching_blocks_no_sentinel(a, b) ==
    collapse(sort_blocks(queue_blocks(a, b, 0, Len(a), 0, Len(b))), <<0, 0, 0>>)

\* get_matching_blocks(): sorted, collapsed, ended by the sentinel (la, lb, 0)
get_matching_blocks(a, b) ==
    collapse(sort_blocks(queue_blocks(a, b, 0, Len(a), 0, Len(b))), <<0, 0, 0>>)
    \o <<(<<Len(a), Len(b), 0>>)>>

\* the loop of get_opcodes over the matching blocks, from position (i, j)
RECURSIVE opcodes_from(_, _, _)
opcodes_from(blocks, i, j) ==
    IF blocks = <<>> THEN <<>>
    ELSE LET ai   == Head(blocks)[1]
             bj   == Head(blocks)[2]
             size == Head(blocks)[3]
             tag  == IF i < ai /\ j < bj THEN "replace"
                     ELSE IF i < ai THEN "delete"
                     ELSE IF j < bj THEN "insert"
                     ELSE ""
         IN (IF tag # "" THEN <<(<<tag, i, ai, j, bj>>)>> ELSE <<>>)
            \o (IF size # 0
                THEN <<(<<"equal", ai, ai + size, bj, bj + size>>)>> ELSE <<>>)
            \o opcodes_from(Tail(blocks), ai + size, bj + size)

\* matcher.get_opcodes(): 5-tuples (tag, i1, i2, j1, j2)
get_opcodes(a, b) == opcodes_from(get_matching_blocks(a, b), 0, 0)

(***************************************************************************)
(* The endpoint                                                            *)
(***************************************************************************)

DiffSegment(type, text) == [type |-> type, text |-> text]

\* segments_of slicing the cleaned text with the original's indices i1, i2
segments_of_insert_by_i(op, original, cleaned) ==
    IF op[1] = "equal" THEN <<DiffSegment("equal", slice(original, op[2], op[3]))>>
    ELSE IF op[1] = "delete" THEN <<DiffSegment("delete", slice(original, op[2], op[3]))>>
    ELSE IF op[1] = "insert" THEN <<DiffSegment("insert", slice(cleaned, op[2], op[3]))>>
    ELSE IF op[1] = "replace" THEN
         <<DiffSegment("delete", slice(original, op[2], op[3])),
           DiffSegment("insert", slice(cleaned, op[2], op[3]))>>
    ELSE <<>>

\* segments_of appending a replace block's insert segment before its delete
segments_of_insert_first(op, original, cleaned) ==
    IF op[1] = "equal" THEN <<DiffSegment("equal", slice(original, op[2], op[3]))>>
    ELSE IF op[1] = "delete" THEN <<DiffSegment("delete", slice(original, op[2], op[3]))>>
    ELSE IF op[1] = "insert" THEN <<DiffSegment("insert", slice(cleaned, op[4], op[5]))>>
    ELSE IF op[1] = "replace" THEN
         <<DiffSegment("insert", slice(cleaned, op[4], op[5])),
           DiffSegment("delete", slice(original, op[2], op[3]))>>
    ELSE <<>>

\* segments_of with the replace branch's second segment left typed 'delete'
segments_of_two_deletes(op, original, cleaned) ==
    IF op[1] = "equal" THEN <<DiffSegment("equal", slice(original, op[2], op[3]))>>
    ELSE IF op[1] = "delete" THEN <<DiffSegment("delete", slice(original, op[2], op[3]))>>
    ELSE IF op[1] = "insert" THEN <<DiffSegment("insert", slice(cleaned, op[4], op[5]))>>
    ELSE IF op[1] = "replace" THEN
         <<DiffSegment("delete", slice(original, op[2], op[3])),
           DiffSegment("delete", slice(cleaned, op[4], op[5]))>>
    ELSE <<>>

\* the body of the for loop over the opcodes: the segments one opcode appends
segments_of(op, original, cleaned) ==
    IF op[1] = "equal" THEN <<DiffSegment("equal", slice(original, op[2], op[3]))>>
    ELSE IF op[1] = "delete" THEN <<DiffSegment("delete", slice(original, op[2], op[3]))>>
    ELSE IF op[1] = "insert" THEN <<DiffSegment("insert", slice(cleaned, op[4], op[5]))>>
    ELSE IF op[1] = "replace" THEN
         <<DiffSegment("delete", slice(original, op[2], op[3])),
           DiffSegment("insert", slice(cleaned, op[4], op[5]))>>
    ELSE <<>>

RECURSIVE diff_segments(_, _, _)
diff_segments(ops, original, cleaned) ==
    IF ops = <<>> THEN <<>>
    ELSE segments_of(Head(ops), original, cleaned)
         \o diff_segments(Tail(ops), original, cleaned)

\* make_diff without the test original == cleaned
make_diff_unconditional(original, cleaned) ==
    Some(diff_segments(get_opcodes(original, cleaned), original, cleaned))

\* diff_output of strip_content_endpoint
make_diff(original, cleaned) ==
    IF original = cleaned THEN None
    ELSE Some(diff_segments(get_opcodes(original, cleaned), original, cleaned))


(***************************************************************************)
(* Requests.  Each request is handled on its own: the payload arrives,     *)
(* the handler runs to completion, the response is returned.               *)
(***************************************************************************)

\* longest payload drawn from DiffAlphabet
MaxLen == 5

\* longest payload drawn from ClassAlphabet
MaxClassLen == 3

Texts(alphabet, n) == UNION {[1 .. k -> alphabet] : k \in 0 .. n}

\* "a", "b", ".", ZERO WIDTH JOINER, EM DASH, HORIZONTAL ELLIPSIS: kept,
\* dropped, replaced one for one and replaced by three characters
DiffAlphabet == {\H61, \H62, \H2E, \H200D, \H2014, \H2026}

\* one or two code points of every rule of the cascade: LINE FEED, "a",
\* ZERO WIDTH JOINER, VARIATION SELECTOR-16, NO-BREAK SPACE, EN DASH,
\* RIGHT SINGLE QUOTATION MARK, TRIPLE PRIME, BULLET, HORIZONTAL ELLIPSIS,
\* FULLWIDTH LATIN H, HEAVY BLACK HEART, SMILING FACE WITH SMILING EYES,
\* EURO SIGN
ClassAlphabet ==
    {\H0A, \H61, \H200D, \HFE0F, \HA0, \H2013, \H2019, \H2034, \H2022,
     \H2026, \HFF28, \H2764, \H1F60A, \H20AC}

\* single code points: every Unicode code point
CodePoints == 0 .. MaxCodePoint

Payloads == Texts(DiffAlphabet, MaxLen) \cup Texts(ClassAlphabet, MaxClassLen)

Init ==
    /\ pc = "idle"
    /\ original_text = <<>>
    /\ cleaned_text = <<>>
    /\ diff_output = None

\* POST / with a payload whose text field is one of Payloads or a single
\* code point
Request ==
    /\ pc = "idle"
    /\ \/ \E text \in Payloads : original_text' = text
       \/ \E c \in CodePoints : original_text' = <<c>>
    /\ pc' = "handling"
    /\ UNCHANGED <<cleaned_text, diff_output>>

\* the handler: cleaned_text and diff_output of the TextOutput it returns
strip_content_endpoint ==
    /\ pc = "handling"
    /\ cleaned_text' = strip_non_human_chars(original_text)
    /\ diff_output' = make_diff(original_text, cleaned_text')
    /\ pc' = "done"
    /\ UNCHANGED original_text

Next ==
    \/ Request
    \/ strip_content_endpoint

Spec == Init /\ [][Next]_vars


(***************************************************************************)
(* Properties                                                              *)
(***************************************************************************)

Chars(text) == {text[n] : n \in DOMAIN text}

Kinds(segments) == {segments[n].type : n \in DOMAIN segments}

\* the texts of the segments whose kind is in kinds, concatenated in order
RECURSIVE seg_concat(_, _)
seg_concat(segments, kinds) ==
    IF segments = <<>> THEN <<>>
    ELSE (IF Head(segments).type \in kinds THEN Head(segments).text ELSE <<>>)
         \o seg_concat(Tail(segments), kinds)

\* number of code points in the segments whose kind is in kinds
seg_len(segments, kinds) == Len(seg_concat(segments, kinds))

Max(x, y) == IF x >= y THEN x ELSE y

\* one row of the longest-common-subsequence table, filled left to right
RECURSIVE lcs_fill(_, _, _, _)
lcs_fill(prev, x, b, row) ==
    IF Len(row) = Len(b) + 1 THEN row
    ELSE LET j == Len(row)
         IN lcs_fill(prev, x, b,
                Append(row, IF x = b[j] THEN prev[j] + 1
                            ELSE Max(prev[j + 1], row[j])))

RECURSIVE lcs_row(_, _, _)
lcs_row(a, b, i) ==
    IF i = 0 THEN [j \in 1 .. Len(b) + 1 |-> 0]
    ELSE lcs_fill(lcs_row(a, b, i - 1), a[i], b, <<0>>)

\* length of a longest common subsequence of a and b
LCS(a, b) == lcs_row(a, b, Len(a))[Len(b) + 1]

\* the eight emoji ranges, as the claims list them
in_emoji_ranges(c) ==
    \/ c \in \H1F600 .. \H1F64F
    \/ c \in \H1F300 .. \H1F5FF
    \/ c \in \H1F680 .. \H1F6FF
    \/ c \in \H1F900 .. \H1F9FF
    \/ c \in \H2700 .. \H27BF
    \/ c \in \H1FA70 .. \H1FAFF
    \/ c \in \H1F1E6 .. \H1F1FF
    \/ c \in \H2600 .. \H26FF

\* rule r of the cascade, taken alone: its membership test ...
rule_matches(r, c) ==
    CASE r = 1 -> is_hidden(c)
      [] r = 2 -> is_space(c)
      [] r = 3 -> is_dash(c)
      [] r = 4 -> is_quote(c)
      [] r = 5 -> is_misc(c)
      [] r = 6 -> is_fullwidth(c)
      [] r = 7 -> is_ascii(c)
      [] r = 8 -> is_emoji(c)
      [] r = 9 -> ~(is_hidden(c) \/ is_space(c) \/ is_dash(c) \/ is_quote(c)
                    \/ is_misc(c) \/ is_fullwidth(c) \/ is_ascii(c) \/ is_emoji(c))

\* ... and its action
rule_action(r, c) ==
    CASE r = 1 -> <<>>
      [] r = 2 -> _space_map[c]
      [] r = 3 -> _dash_map[c]
      [] r = 4 -> _quote_map[c]
      [] r = 5 -> _misc_map[c]
      [] r = 6 -> fullwidth_shift(c)
      [] r = 7 -> <<c>>
      [] r = 8 -> <<c>>
      [] r = 9 -> <<>>

rules_matching(c) == {r \in 1 .. 9 : rule_matches(r, c)}

Responded == pc = "done"

\* the segment list of the response, when its diff is not None
Diff == diff_output[1]

\* C1 (reconstruction invariant): whenever the cleaned text differs from the
\* input, the equal and delete segments concatenate to the input and the equal
\* and insert segments concatenate to the cleaned text.
C1_Reconstruction ==
    (Responded /\ cleaned_text # original_text) =>
        /\ diff_output # None
        /\ seg_concat(Diff, {"equal", "delete"}) = original_text
        /\ seg_concat(Diff, {"equal", "insert"}) = cleaned_text

\* a diff that holds segments of all three kinds
C1_Witness ==
    /\ Responded
    /\ diff_output # None
    /\ Kinds(Diff) = {"equal", "insert", "delete"}

\* C2 (idempotence): stripping the cleaned text again changes nothing.
C2_Idempotence ==
    Responded => strip_non_human_chars(cleaned_text) = cleaned_text

\* an input with a code point rewritten to three characters and one
\* rewritten to none
C2_Witness ==
    /\ Responded
    /\ {\H2026, \H2034} \subseteq Chars(original_text)
    /\ cleaned_text # <<>>

\* C3 (ASCII fixpoint): an input of code points 0..127 only is returned as it
\* is, and none of its code points is in the hidden set or a key of a map.
C3_AsciiFixpoint ==
    (Responded /\ Chars(original_text) \subseteq 0 .. 127) =>
        /\ cleaned_text = original_text
        /\ \A c \in Chars(original_text) :
              /\ c \notin _hidden_chars_to_remove
              /\ c \notin DOMAIN _space_map
              /\ c \notin DOMAIN _dash_map
              /\ c \notin DOMAIN _quote_map
              /\ c \notin DOMAIN _misc_map

\* an ASCII input that holds a control character
C3_Witness ==
    /\ Responded
    /\ Chars(original_text) \subseteq 0 .. 127
    /\ \E c \in Chars(original_text) : c < 32
    /\ \E c \in Chars(original_text) : c >= 32

\* C4 (no diff iff unchanged): the diff is None exactly when the cleaned text
\* equals the input, and a diff that is not None is a non-empty list.
C4_NoDiffIffUnchanged ==
    Responded =>
        /\ (diff_output = None) <=> (cleaned_text = original_text)
        /\ diff_output # None => Len(Diff) > 0

\* a non-empty input returned unchanged, with no diff
C4_Witness ==
    /\ Responded
    /\ original_text # <<>>
    /\ cleaned_text = original_text
    /\ diff_output = None

\* C5 (range disjointness): every code point of the input matches exactly one
\* of the nine rules, and the action of that rule is what the cascade emits,
\* so the order of the tests does not matter.
C5_RangeDisjointness ==
    Responded =>
        /\ \A c \in Chars(original_text) :
              /\ Cardinality(rules_matching(c)) = 1
              /\ \A r \in rules_matching(c) : strip_char(c) = rule_action(r, c)
        /\ Len(original_text) = 1 =>
              \A r \in rules_matching(original_text[1]) :
                 cleaned_text = rule_action(r, original_text[1])

\* an input whose code points fall to the removal rule, the emoji rule and
\* the fallback
C5_Witness ==
    /\ Responded
    /\ Len(original_text) = 3
    /\ UNION {rules_matching(c) : c \in Chars(original_text)} = {1, 8, 9}

\* C6 (emoji kept, joiners stripped): an input made of emoji-range code
\* points, zero-width joiners and variation selectors comes back as its
\* emoji-range code points, in order.
C6_EmojiPreserved ==
    (/\ Responded
     /\ \A c \in Chars(original_text) :
           in_emoji_ranges(c) \/ c = \H200D \/ c \in \HFE00 .. \HFE0F) =>
        cleaned_text = SelectSeq(original_text, in_emoji_ranges)

\* two emoji joined by a zero-width joiner
C6_Witness ==
    /\ Responded
    /\ Len(original_text) = 3
    /\ in_emoji_ranges(original_text[1])
    /\ original_text[2] = \H200D
    /\ in_emoji_ranges(original_text[3])
    /\ cleaned_text = <<original_text[1], original_text[3]>>

\* C7 (delete before insert): every replace opcode appears as a delete
\* segment of the original substring followed at once by an insert segment of
\* the cleaned substring, and no insert segment is followed at once by a
\* delete segment.
C7_DeleteBeforeInsert ==
    (Responded /\ diff_output # None) =>
        /\ \A n \in 1 .. Len(Diff) - 1 :
              ~(Diff[n].type = "insert" /\ Diff[n + 1].type = "delete")
        /\ LET ops == get_opcodes(original_text, cleaned_text)
           IN \A m \in DOMAIN ops :
                 ops[m][1] = "replace" =>
                    \E n \in 1 .. Len(Diff) - 1 :
                       /\ Diff[n] =
                             DiffSegment("delete", slice(original_text, ops[m][2], ops[m][3]))
                       /\ Diff[n + 1] =
                             DiffSegment("insert", slice(cleaned_text, ops[m][4], ops[m][5]))

\* a diff with a replaced block between two equal segments
C7_Witness ==
    /\ Responded
    /\ diff_output # None
    /\ \E n \in 1 .. Len(Diff) - 3 :
          /\ Diff[n].type = "equal"
          /\ Diff[n + 1].type = "delete"
          /\ Diff[n + 2].type = "insert"
          /\ Diff[n + 3].type = "equal"

C9_MaximalRuns ==
    (Responded /\ diff_output # None) =>
        \A n \in 1 .. Len(Diff) - 1 :
           Diff[n].type # Diff[n + 1].type

\* a diff of five segments or more
C9_Witness ==
    /\ Responded
    /\ diff_output # None
    /\ Len(Diff) >= 5

\* C10 (output alphabet): every code point of the cleaned text is ASCII or in
\* an emoji range; every replacement literal of the maps is ASCII and every
\* fullwidth code point is shifted into 0x21..0x7E.
C10_OutputAlphabet ==
    Responded =>
        /\ \A c \in Chars(cleaned_text) : c \in 0 .. 127 \/ in_emoji_ranges(c)
        /\ \A c \in Chars(original_text) :
              /\ is_space(c) => Chars(_space_map[c]) \subseteq 0 .. 127
              /\ is_dash(c) => Chars(_dash_map[c]) \subseteq 0 .. 127
              /\ is_quote(c) => Chars(_quote_map[c]) \subseteq 0 .. 127
              /\ is_misc(c) => Chars(_misc_map[c]) \subseteq 0 .. 127
              /\ is_fullwidth(c) => Chars(fullwidth_shift(c)) \subseteq \H21 .. \H7E
              /\ c \in {\H20AC, \HA9} => c \notin Chars(cleaned_text)

\* an input with a euro sign and a fullwidth letter, cleaned to ASCII
C10_Witness ==
    /\ Responded
    /\ {\H20AC, \HFF28} \subseteq Chars(original_text)
    /\ cleaned_text # <<>>

=============================================================================
